---- MODULE Spec2Model ----
(***************************************************************************)
(* SmartTaskOrganizer: the task registry (TaskManager), the task factory,  *)
(* the localStorage adapter (StorageManager) and the observer fan-out.     *)
(*                                                                         *)
(* JavaScript objects have identity.  this.tasks is one array of Task      *)
(* objects; the UIManager observer keeps in currentTasks whatever array it *)
(* was handed, so it either shares this.tasks (uiAliased) or holds another *)
(* array (uiOwn): its own initial [] or an array this.tasks was before     *)
(* loadTasks replaced it, whose Task objects the registry no longer holds. *)
(* Every field value is a string, as in the program (deadline and          *)
(* createdAt are date strings, parsed by new Date when compared).          *)
(***************************************************************************)
EXTENDS Integers, Sequences, FiniteSets, TLC

\* ---------------------------------------------------------------- bounds
MaxTasks == 2
MaxObservers == 2
PureLen == 3

\* ---------------------------------------------------------------- values
UNDEF == "undefined"

Fields == {"id", "title", "description", "deadline", "priority", "status", "createdAt"}

TimeStrings == <<"T1", "T2", "T3", "T4", "T5">>

IdStrings == <<"id1", "id2", "id3", "id4", "id5", "id6", "id7", "id8">>

\* "ui" is the UIManager, "log" and "stats" are observers whose update hook
\* keeps nothing, "bad" an observer whose update hook throws
ObserverIds == {"ui", "log", "stats", "bad"}

\* the observers that keep no reference to the array they are handed
PlainObservers == ObserverIds \ {"ui"}

\* the observer the application registers (App constructor)
AppObservers == {"ui"}

\* new Date().toISOString() at clock value n
toISOString(n) == TimeStrings[n]

\* new Date(s).getTime(); 0 stands for NaN (Invalid Date)
DateOf(s) ==
    IF \E n \in 1..Len(TimeStrings) : TimeStrings[n] = s
    THEN CHOOSE n \in 1..Len(TimeStrings) : TimeStrings[n] = s
    ELSE 0

\* JavaScript's !v for the values a field can take
Falsy(v) == v = "" \/ v = UNDEF

\* null, where the program holds it in place of an id
null == "null"

\* ---------------------------------------------------------------- state
VARIABLES
    tasks,      \* TaskManager.tasks: the registry's array of Task objects
    observers,  \* TaskManager.observers
    uiAliased,  \* UIManager.currentTasks is the very array this.tasks
    uiOwn,      \* UIManager.currentTasks when it is another array
    blob,       \* localStorage[STORAGE_KEY]
    now,        \* the clock
    storageFull, \* localStorage.setItem throws (quota exceeded, storage disabled)
    op,         \* the last call: its name
    outcome,    \* the last call: "ok" (returned) or "throw"
    ret,        \* the last call: the value returned
    events,     \* the last call: what it did, in order
    instance,   \* TaskManager.instance: a TaskManager object, 0 standing for null
    handles,    \* the TaskManager objects that getInstance() and new have handed out
    editingTaskId \* App.editingTaskId: the id of the task in the form, or null

vars == <<tasks, observers, uiAliased, uiOwn, blob, now, storageFull, op, outcome, ret,
          events, instance, handles, editingTaskId>>

\* ---------------------------------------------------------------- task.js
\* class Task: the constructor
Task(id, title, description, deadline, priority, t) ==
    [id |-> id, title |-> title, description |-> description,
     deadline |-> deadline, priority |-> priority,
     status |-> "ToDo", createdAt |-> toISOString(t)]

\* TaskFactory.createTask: newId is `task_${Date.now()}_${random}`
TaskFactory_createTask(title, description, deadline, priority, t, newId) ==
    Task(newId, title, description, deadline, priority, t)

\* reading a property of a parsed JSON object: absent keys read as undefined
Prop(obj, f) == IF f \in DOMAIN obj THEN obj[f] ELSE UNDEF

\* a factory that builds the task anew and restores neither status nor createdAt
fromObjectFresh(taskData, t) ==
    Task(Prop(taskData, "id"), Prop(taskData, "title"), Prop(taskData, "description"),
         Prop(taskData, "deadline"), Prop(taskData, "priority"), t)

\* TaskFactory.fromObject
fromObject(taskData, t) ==
    [Task(Prop(taskData, "id"), Prop(taskData, "title"), Prop(taskData, "description"),
          Prop(taskData, "deadline"), Prop(taskData, "priority"), t)
        EXCEPT !.status = Prop(taskData, "status"),
               !.createdAt = Prop(taskData, "createdAt")]

\* ---------------------------------------------------------------- storage.js
NoData == [kind |-> "none", recs |-> <<>>]

EmptyArray == [kind |-> "array", recs |-> <<>>]

\* JSON.stringify of one Task: properties whose value is undefined are dropped
stringifyTask(t) ==
    [isNull |-> FALSE,
     obj |-> [f \in {g \in DOMAIN t : t[g] # UNDEF} |-> t[f]]]

\* JSON.stringify(tasks, null, 2), kept as the JSON value the text denotes
stringify(arr) ==
    [kind |-> "array", recs |-> [i \in 1..Len(arr) |-> stringifyTask(arr[i])]]

\* StorageManager.saveTasks: wr is whether localStorage.setItem succeeds;
\* the result is <<the blob afterwards, the boolean returned>>
StorageManager_saveTasks(arr, b, wr) ==
    IF wr THEN <<stringify(arr), TRUE>> ELSE <<b, FALSE>>

\* an adapter without the try/catch: what cannot be parsed goes to the caller
StorageManager_loadTasksUncaught(b, rd) ==
    IF rd /\ b.kind = "none" THEN EmptyArray ELSE b

\* StorageManager.loadTasks: rd is whether localStorage.getItem succeeds
StorageManager_loadTasks(b, rd) ==
    IF ~rd THEN EmptyArray                      \* getItem throws: caught
    ELSE IF b.kind = "none" THEN EmptyArray     \* if (data) is false
    ELSE IF b.kind = "garbage" THEN EmptyArray  \* JSON.parse throws: caught
    ELSE IF b.kind = "null" THEN EmptyArray     \* null.length throws: caught
    ELSE b                                      \* whatever JSON.parse gave

\* ---------------------------------------------------------------- a running call
\* The state a call works on, threaded through its statements in order.
Start ==
    [tasks |-> tasks, blob |-> blob,
     uiAliased |-> uiAliased, uiOwn |-> uiOwn,
     events |-> <<>>, thrown |-> FALSE]

Event(kind, who, st, ok) ==
    [kind |-> kind, obs |-> who, snap |-> st.tasks, ok |-> ok]

Mutated(st) == [st EXCEPT !.events = Append(@, Event("mutate", "", st, TRUE))]

\* a save that undoes the change in memory when the write fails
saveTasksRollsBack(st, wr) ==
    LET r == StorageManager_saveTasks(st.tasks, st.blob, wr)
    IN [st EXCEPT !.blob = r[1],
                  !.tasks = IF r[2] THEN @ ELSE tasks,
                  !.events = Append(@, Event("save", "", st, r[2]))]

\* TaskManager.saveTasks
saveTasks(st, wr) ==
    LET r == StorageManager_saveTasks(st.tasks, st.blob, wr)
    IN [st EXCEPT !.blob = r[1],
                  !.events = Append(@, Event("save", "", st, r[2]))]

\* what TaskManager.saveTasks returns: true unless StorageManager.saveTasks
\* throws, which its own try/catch never lets it do; the boolean r that the
\* adapter returned is dropped
saveTasksResult(r) == TRUE

\* TaskManager.notifyObservers: forEach in registration order; the "ui"
\* observer is UIManager.update (stores the array it is handed, renders inside
\* try/catch); the "bad" observer's update throws, which ends the forEach.
notifyObservers(st, obs) ==
    LET bad == {i \in 1..Len(obs) : obs[i] = "bad"}
        k == IF bad = {} THEN Len(obs) + 1
             ELSE CHOOSE i \in bad : \A j \in bad : i <= j
        n == IF k <= Len(obs) THEN k ELSE Len(obs)
        uiGot == \E i \in 1..n : obs[i] = "ui"
    IN [st EXCEPT
          !.events = @ \o [i \in 1..n |-> Event("notify", obs[i], st, obs[i] # "bad")],
          !.uiAliased = IF uiGot THEN TRUE ELSE @,
          !.uiOwn = IF uiGot THEN <<>> ELSE @,
          !.thrown = k <= Len(obs)]

\* this.tasks = <a new array>: an observer that held the old one keeps it
assignTasks(st, arr) ==
    [st EXCEPT !.tasks = arr,
               !.uiAliased = FALSE,
               !.uiOwn = IF st.uiAliased THEN st.tasks ELSE @]

NoRet == [kind |-> "none"]

\* the call returns (or throws): its effects become the program's state
Finish(st, o, out, r) ==
    /\ tasks' = st.tasks
    /\ blob' = st.blob
    /\ uiAliased' = st.uiAliased
    /\ uiOwn' = IF st.uiAliased THEN <<>> ELSE st.uiOwn
    /\ events' = st.events
    /\ op' = o
    /\ outcome' = out
    /\ ret' = r
    /\ UNCHANGED <<observers, now, storageFull, instance, handles>>

\* ---------------------------------------------------------------- fresh names
UsedIds ==
    {tasks[i].id : i \in 1..Len(tasks)}
        \cup {uiOwn[i].id : i \in 1..Len(uiOwn)}
        \cup {Prop(blob.recs[i].obj, "id") : i \in 1..Len(blob.recs)}

\* `task_${Date.now()}_${Math.random()...}`: an id no task of the process has
NewId == CHOOSE i \in 1..Len(IdStrings) :
            /\ IdStrings[i] \notin UsedIds
            /\ \A j \in 1..(i - 1) : IdStrings[j] \in UsedIds

\* ---------------------------------------------------------------- TaskManager
TitleArgs == {"", "a"}

DeadlineArgs == {UNDEF, "T1"}

PriorityArgs == {"", "High"}

\* a guard that forgets the deadline
InvalidWithoutDeadline(title, deadline, priority) ==
    Falsy(title) \/ Falsy(priority)

\* the guard of createTask: title, deadline and priority are required
Invalid(title, deadline, priority) ==
    Falsy(title) \/ Falsy(deadline) \/ Falsy(priority)

\* this.tasks.unshift(task)
unshift(st, task) == [st EXCEPT !.tasks = <<task>> \o @]

\* this.tasks.push(task)
push(st, task) == [st EXCEPT !.tasks = Append(@, task)]

\* createTask notifying before it saves
createTaskNotifyFirst(st, task, obs, wr) ==
    saveTasks(notifyObservers(Mutated(push(st, task)), obs), wr)

\* createTask saving before it pushes the new task
createTaskSaveFirst(st, task, obs, wr) ==
    notifyObservers(Mutated(push(saveTasks(st, wr), task)), obs)

\* the statements of createTask after the validation
createTaskRun(st, task, obs, wr) ==
    notifyObservers(saveTasks(Mutated(push(st, task)), wr), obs)

\* TaskManager.createTask; a returned Task is named by its place in this.tasks
createTask(title, description, deadline, priority) ==
    \E wr \in {~storageFull} :
        IF Invalid(title, deadline, priority)
        THEN Finish(Start, "create", "throw", NoRet)
        ELSE /\ Len(tasks) < MaxTasks
             /\ LET task == TaskFactory_createTask(title, description, deadline,
                                                   priority, now, IdStrings[NewId])
                    st == createTaskRun(Start, task, observers, wr)
                IN IF st.thrown
                   THEN Finish(st, "create", "throw", NoRet)
                   ELSE Finish(st, "create", "ok", [kind |-> "task", at |-> Len(st.tasks)])

\* the ids a caller can name: those of the registry's tasks and one no task has
IdArgs == {tasks[i].id : i \in 1..Len(tasks)} \cup {"id0"}

\* the edit form's submission (App.handleFormSubmit)
FormEdit == [title |-> "b", description |-> "e", deadline |-> "T2", priority |-> "Low"]

\* the partial-field objects the program's own callers pass to updateTask
UpdateArgs == {[status |-> "Completed"], FormEdit}

\* partial-field objects that name the identity fields
IdentityArgs == {[id |-> "id1"], [createdAt |-> "T2"]}

\* a partial-field object that empties the title
BlankArgs == {[title |-> ""]}

\* this.tasks.findIndex(t => t.id === id), 0 standing for -1
findIndex(arr, id) ==
    LET hits == {i \in 1..Len(arr) : arr[i].id = id}
    IN IF hits = {} THEN 0 ELSE CHOOSE i \in hits : \A j \in hits : i <= j

\* an update that puts the status back to ToDo unless the caller names it
ObjectAssignResetStatus(task, updates) ==
    [f \in DOMAIN task \cup DOMAIN updates |->
        IF f \in DOMAIN updates THEN updates[f]
        ELSE IF f = "status" THEN "ToDo" ELSE task[f]]

\* Object.assign(task, updates)
ObjectAssign(task, updates) ==
    [f \in DOMAIN task \cup DOMAIN updates |->
        IF f \in DOMAIN updates THEN updates[f] ELSE task[f]]

assign(st, i, updates) ==
    [st EXCEPT !.tasks = [@ EXCEPT ![i] = ObjectAssign(@, updates)]]

\* the statements of updateTask once the task is found
updateTaskRun(st, i, updates, obs, wr) ==
    notifyObservers(saveTasks(Mutated(assign(st, i, updates)), wr), obs)

\* the earlier revision of the registry: return null (false) for an unknown id
returnNull(o) == Finish(Start, o, "ok", [kind |-> "null"])

\* if (!task) throw new Error('Task not found'), rethrown by the catch block
throwNotFound(o) == Finish(Start, o, "throw", NoRet)

\* TaskManager.updateTask, called under the name o
updateTaskAs(o, id, updates) ==
    \E wr \in {~storageFull} :
        LET i == findIndex(tasks, id)
        IN IF i = 0
           THEN throwNotFound(o)
           ELSE LET st == updateTaskRun(Start, i, updates, observers, wr)
                IN IF st.thrown
                   THEN Finish(st, o, "throw", NoRet)
                   ELSE Finish(st, o, "ok", [kind |-> "task", at |-> i])

updateTask(id, updates) == updateTaskAs("update", id, updates)

\* a completion that writes another word for the status
markAsDone(id) == updateTaskAs("complete", id, [status |-> "Done"])

\* TaskManager.markAsCompleted
markAsCompleted(id) == updateTaskAs("complete", id, [status |-> "Completed"])

\* TaskManager.markAsNotCompleted
markAsNotCompleted(id) == updateTaskAs("uncomplete", id, [status |-> "ToDo"])

\* this.tasks.splice(index): everything from index on is removed
spliceToEnd(st, i) == [st EXCEPT !.tasks = SubSeq(@, 1, i - 1)]

\* this.tasks.splice(index, 1)
splice(st, i) ==
    [st EXCEPT !.tasks = [j \in 1..(Len(@) - 1) |-> IF j < i THEN @[j] ELSE @[j + 1]]]

\* the statements of deleteTask once the index is found
deleteTaskRun(st, i, obs, wr) ==
    notifyObservers(saveTasks(Mutated(splice(st, i)), wr), obs)

\* TaskManager.deleteTask
deleteTask(id) ==
    \E wr \in {~storageFull} :
        LET i == findIndex(tasks, id)
        IN IF i = 0
           THEN throwNotFound("delete")
           ELSE LET st == deleteTaskRun(Start, i, observers, wr)
                IN IF st.thrown
                   THEN Finish(st, "delete", "throw", NoRet)
                   ELSE Finish(st, "delete", "ok", [kind |-> "bool", val |-> TRUE])

\* savedTasks.map(taskData => TaskFactory.fromObject(taskData)) throws when
\* savedTasks is no array or holds a null
mapThrows(saved) ==
    saved.kind # "array" \/ \E i \in 1..Len(saved.recs) : saved.recs[i].isNull

\* the catch block of loadTasks
loadCaught(st) == assignTasks(st, <<>>)

\* the try block of loadTasks once map has built the new Task objects
loadTasksRun(st, loaded, obs) == notifyObservers(assignTasks(st, loaded), obs)

\* TaskManager.loadTasks, rd being whether localStorage can be read
loadTasksWith(rd) ==
    LET saved == StorageManager_loadTasks(blob, rd)
    IN IF mapThrows(saved)
       THEN Finish(loadCaught(Start), "load", "ok", [kind |-> "array", live |-> FALSE])
       ELSE LET loaded == [i \in 1..Len(saved.recs) |-> fromObject(saved.recs[i].obj, now)]
                st == loadTasksRun(Start, loaded, observers)
            IN IF st.thrown
               THEN Finish(loadCaught(st), "load", "ok", [kind |-> "array", live |-> FALSE])
               ELSE Finish(st, "load", "ok", [kind |-> "array", live |-> TRUE])

loadTasks == \E rd \in BOOLEAN : loadTasksWith(rd) /\ UNCHANGED editingTaskId

\* TaskManager.saveTasks called by a client (the command surface's save)
saveTasksCall ==
    \E wr \in {~storageFull} :
        /\ Finish(saveTasks(Start, wr), "save", "ok",
                  [kind |-> "bool",
                   val |-> saveTasksResult(StorageManager_saveTasks(tasks, blob, wr)[2])])
        /\ UNCHANGED editingTaskId

\* a call that leaves the tasks, the storage and the clock alone
Bookkeeping(o) ==
    /\ op' = o
    /\ outcome' = "ok"
    /\ ret' = NoRet
    /\ events' = <<>>
    /\ UNCHANGED <<instance, handles>>

\* TaskManager.addObserver
addObserver(o) ==
    /\ Len(observers) < MaxObservers
    /\ observers' = Append(observers, o)
    /\ Bookkeeping("addObserver")
    /\ UNCHANGED <<tasks, blob, uiAliased, uiOwn, now, storageFull, editingTaskId>>

\* this.observers.indexOf(observer), 0 standing for -1
indexOf(obs, o) ==
    LET hits == {i \in 1..Len(obs) : obs[i] = o}
    IN IF hits = {} THEN 0 ELSE CHOOSE i \in hits : \A j \in hits : i <= j

\* TaskManager.removeObserver
removeObserver(o) ==
    LET i == indexOf(observers, o)
    IN /\ observers' = IF i = 0 THEN observers
                       ELSE [j \in 1..(Len(observers) - 1) |->
                                IF j < i THEN observers[j] ELSE observers[j + 1]]
       /\ Bookkeeping("removeObserver")
       /\ UNCHANGED <<tasks, blob, uiAliased, uiOwn, now, storageFull, editingTaskId>>

\* what another page of the same origin, an older version of the program or
\* the user's developer tools can leave under STORAGE_KEY
ForeignBlobs ==
    {NoData,
     [kind |-> "garbage", recs |-> <<>>],
     [kind |-> "object", recs |-> <<>>],
     [kind |-> "array", recs |-> <<[isNull |-> TRUE, obj |-> [x \in {} |-> ""]]>>],
     [kind |-> "array", recs |-> <<[isNull |-> FALSE, obj |-> [id |-> "id9", status |-> "ToDo"]]>>]}

\* localStorage is written from outside the registry
ExternalWrite(b) ==
    /\ blob # b
    /\ blob' = b
    /\ Bookkeeping("externalWrite")
    /\ UNCHANGED <<tasks, observers, uiAliased, uiOwn, now, storageFull, editingTaskId>>

\* the object that a new expression allocates: one that nobody holds yet
NewObject == CHOOSE n \in 1..(Cardinality(handles) + 2) : n \notin handles \cup {instance}

\* a constructor that initializes and installs this whatever instance holds
constructorAlways(this) ==
    [ret |-> this, instance |-> this, tasks |-> <<>>, observers |-> <<>>]

\* the TaskManager constructor run on the fresh object this: the object that
\* the new expression yields, TaskManager.instance afterwards, and the tasks
\* and observers that TaskManager.instance then holds
constructor(this) ==
    IF instance # 0
    THEN [ret |-> instance, instance |-> instance, tasks |-> tasks, observers |-> observers]
    ELSE [ret |-> this, instance |-> this, tasks |-> <<>>, observers |-> <<>>]

\* a call returns the TaskManager object r.ret
Construct(o, r) ==
    /\ instance' = r.instance
    /\ handles' = handles \cup {r.ret}
    /\ tasks' = r.tasks
    /\ observers' = r.observers
    /\ op' = o
    /\ outcome' = "ok"
    /\ ret' = [kind |-> "object", ref |-> r.ret]
    /\ events' = <<>>
    /\ UNCHANGED <<uiAliased, uiOwn, blob, now, storageFull, editingTaskId>>

\* new TaskManager()
newTaskManager == Construct("construct", constructor(NewObject))

\* TaskManager.getInstance()
getInstance ==
    IF instance = 0
    THEN LET r == constructor(NewObject)
         IN Construct("getInstance", [r EXCEPT !.ret = r.instance])
    ELSE Construct("getInstance",
                   [ret |-> instance, instance |-> instance,
                    tasks |-> tasks, observers |-> observers])

\* TaskManager.getAllTasks: [...this.tasks], a new array of the same Task
\* objects; element i of the result is the object at place at of this.tasks
getAllTasks(arr) == [i \in 1..Len(arr) |-> [at |-> i, val |-> arr[i]]]

\* what a holder of an array of tasks can do to it
Mutations == {"pop", "reverse", "setField"}

\* the array after the holder's mutation; setField is arr[0].title = "x"
mutateArray(arr, m) ==
    IF m = "pop" THEN SubSeq(arr, 1, Len(arr) - 1)
    ELSE IF m = "reverse" THEN [i \in 1..Len(arr) |-> arr[Len(arr) + 1 - i]]
    ELSE arr

\* this.tasks after a caller mutated the array c that it got from getAllTasks:
\* only a write to a field of an object that this.tasks holds too shows
afterCopyMutation(arr, c, m) ==
    IF m = "setField" /\ c[1].at > 0
    THEN [arr EXCEPT ![c[1].at] = ObjectAssign(@, [title |-> "x"])]
    ELSE arr

\* a caller takes getAllTasks() and mutates what it got
callerMutatesCopy(m) ==
    /\ tasks # <<>>
    /\ tasks' = afterCopyMutation(tasks, getAllTasks(tasks), m)
    /\ Bookkeeping("callerMutates")
    /\ UNCHANGED <<observers, blob, uiAliased, uiOwn, now, storageFull, editingTaskId>>

\* the array after a mutation by whoever holds it
afterMutation(arr, m) ==
    IF m = "setField" THEN [arr EXCEPT ![1] = ObjectAssign(@, [title |-> "x"])]
    ELSE mutateArray(arr, m)

\* the observer mutates the array it stored in currentTasks (UIManager.update)
observerMutatesSnapshot(m) ==
    /\ IF uiAliased
       THEN tasks # <<>> /\ tasks' = afterMutation(tasks, m) /\ uiOwn' = uiOwn
       ELSE uiOwn # <<>> /\ uiOwn' = afterMutation(uiOwn, m) /\ tasks' = tasks
    /\ Bookkeeping("observerMutates")
    /\ UNCHANGED <<observers, blob, uiAliased, now, storageFull, editingTaskId>>

Init ==
    /\ tasks = <<>>
    /\ observers = <<>>
    /\ uiAliased = FALSE
    /\ uiOwn = <<>>
    /\ blob = NoData
    /\ now = 1
    /\ storageFull = FALSE
    /\ op = "new"
    /\ outcome = "ok"
    /\ ret = NoRet
    /\ events = <<>>
    /\ editingTaskId = null
    /\ instance = 1
    /\ handles = {1}

Next ==
    \/ \E o \in AppObservers : addObserver(o)
    \/ \E t \in TitleArgs, d \in DeadlineArgs, p \in PriorityArgs :
          createTask(t, "", d, p) /\ UNCHANGED editingTaskId
    \/ \E id \in IdArgs, u \in UpdateArgs : updateTask(id, u) /\ UNCHANGED editingTaskId
    \/ \E id \in IdArgs : deleteTask(id) /\ UNCHANGED editingTaskId
    \/ \E id \in IdArgs : markAsCompleted(id) /\ UNCHANGED editingTaskId
    \/ \E id \in IdArgs : markAsNotCompleted(id) /\ UNCHANGED editingTaskId
    \/ loadTasks

\* the registry as its own application drives it
Spec == Init /\ [][Next]_vars

NextArgs ==
    \/ Next
    \/ \E id \in IdArgs, u \in IdentityArgs : updateTask(id, u) /\ UNCHANGED editingTaskId
    \/ \E id \in IdArgs, u \in BlankArgs : updateTask(id, u) /\ UNCHANGED editingTaskId

\* the registry under callers that pass any partial-field object
SpecArgs == Init /\ [][NextArgs]_vars

NextStorage ==
    \/ Next
    \/ \E b \in ForeignBlobs : ExternalWrite(b)

\* the registry over a localStorage that others write too
SpecStorage == Init /\ [][NextStorage]_vars

NextClient ==
    \/ Next
    \/ \E m \in Mutations : callerMutatesCopy(m)
    \/ \E m \in Mutations : observerMutatesSnapshot(m)

\* the registry with callers and observers that write to what they are handed
SpecClient == Init /\ [][NextClient]_vars

\* the page is opened with a localStorage that takes writes, or with one
\* whose setItem throws on every call (storage disabled, quota used up)
InitOutage ==
    /\ storageFull \in BOOLEAN
    /\ tasks = <<>>
    /\ observers = <<>>
    /\ uiAliased = FALSE
    /\ uiOwn = <<>>
    /\ blob = NoData
    /\ now = 1
    /\ op = "new"
    /\ outcome = "ok"
    /\ ret = NoRet
    /\ events = <<>>
    /\ editingTaskId = null
    /\ instance = 1
    /\ handles = {1}

NextOutage ==
    \/ Next
    \/ saveTasksCall

\* the registry over a localStorage whose writes can fail
SpecOutage == InitOutage /\ [][NextOutage]_vars

NextObservers ==
    \/ Next
    \/ \E o \in PlainObservers : addObserver(o)
    \/ \E o \in PlainObservers : removeObserver(o)

\* the registry with observers of every kind coming and going
SpecObservers == Init /\ [][NextObservers]_vars

\* a stored text that is absent or that JSON.parse cannot read
UnreadableBlobs == {NoData, [kind |-> "garbage", recs |-> <<>>]}

NextUnreadable ==
    \/ \E o \in AppObservers : addObserver(o)
    \/ \E t \in TitleArgs, d \in DeadlineArgs, p \in PriorityArgs :
          createTask(t, "", d, p) /\ UNCHANGED editingTaskId
    \/ \E id \in IdArgs : markAsCompleted(id) /\ UNCHANGED editingTaskId
    \/ loadTasks
    \/ \E b \in UnreadableBlobs : ExternalWrite(b)

\* the registry over a localStorage that is emptied or spoilt from outside
SpecUnreadable == Init /\ [][NextUnreadable]_vars

\* ---------------------------------------------------------------- app.js
\* TaskManager.getTaskById: this.tasks.find(t => t.id === id); the Task found is
\* named by its place in this.tasks, 0 standing for undefined
getTaskById(id) == findIndex(tasks, id)

\* what the task form can hold when it is submitted: the title trimmed, the
\* description, the deadline and the priority
FormArgs ==
    {FormEdit,
     [title |-> "a", description |-> "", deadline |-> "T1", priority |-> "High"],
     [title |-> "", description |-> "", deadline |-> "T1", priority |-> "High"]}

\* App.createTask: the registry's createTask, its error shown and thrown again
App_createTask(title, description, deadline, priority) ==
    createTask(title, description, deadline, priority)

\* App.updateTask: the registry's updateTask, its error shown and thrown again
App_updateTask(id, updates) == updateTask(id, updates)

\* App.handleFormSubmit: the form is refused when a required field is empty;
\* otherwise the task being edited is updated, or a task is created.
\* this.editingTaskId = null is skipped when the update throws.
handleFormSubmit(form) ==
    IF Falsy(form.title) \/ Falsy(form.deadline) \/ Falsy(form.priority)
    THEN /\ Bookkeeping("submit")
         /\ UNCHANGED <<tasks, observers, blob, uiAliased, uiOwn, now, storageFull,
                        editingTaskId>>
    ELSE IF editingTaskId # null
         THEN /\ App_updateTask(editingTaskId, form)
              /\ editingTaskId' = IF outcome' = "throw" THEN editingTaskId ELSE null
         ELSE /\ App_createTask(form.title, form.description, form.deadline,
                                form.priority)
              /\ UNCHANGED editingTaskId

\* a delete that forgets the form
App_deleteTaskKeepsEditing(id) ==
    /\ deleteTask(id)
    /\ UNCHANGED editingTaskId

\* App.deleteTask: the editing state is cleared when the deleted task is the
\* one in the form; a throw of the registry's deleteTask skips that
App_deleteTask(id) ==
    /\ deleteTask(id)
    /\ editingTaskId' = IF outcome' = "ok" /\ editingTaskId = id
                        THEN null ELSE editingTaskId

\* App.completeTask
completeTask(id) ==
    /\ markAsCompleted(id)
    /\ UNCHANGED editingTaskId

\* App.uncompleteTask
uncompleteTask(id) ==
    /\ markAsNotCompleted(id)
    /\ UNCHANGED editingTaskId

\* App.editTask: an id that names no task is refused and the form stays as it is
editTask(id) ==
    /\ Bookkeeping("edit")
    /\ editingTaskId' = IF getTaskById(id) = 0 THEN editingTaskId ELSE id
    /\ UNCHANGED <<tasks, observers, blob, uiAliased, uiOwn, now, storageFull>>

\* new App(): the UIManager is registered as the registry's observer, nothing
\* is stored yet, loadInitialTasks has handed the empty registry to the UI
InitApp ==
    /\ tasks = <<>>
    /\ observers = <<"ui">>
    /\ uiAliased = TRUE
    /\ uiOwn = <<>>
    /\ blob = NoData
    /\ now = 1
    /\ storageFull = FALSE
    /\ op = "load"
    /\ outcome = "ok"
    /\ ret = [kind |-> "array", live |-> TRUE]
    /\ events = <<Event("notify", "ui", Start, TRUE)>>
    /\ instance = 1
    /\ handles = {1}
    /\ editingTaskId = null

NextApp ==
    \/ \E id \in IdArgs : editTask(id)
    \/ \E form \in FormArgs : handleFormSubmit(form)
    \/ \E id \in IdArgs : App_deleteTask(id)
    \/ \E id \in IdArgs : completeTask(id)
    \/ \E id \in IdArgs : uncompleteTask(id)

\* the application controller under the user's clicks on the form and the cards
SpecApp == InitApp /\ [][NextApp]_vars

\* ---------------------------------------------------------------- statistics, strategies
\* new Date(deadline) < now, now being new Date() at clock value t; a
\* comparison with an Invalid Date is false
Before(deadline, t) == DateOf(deadline) # 0 /\ DateOf(deadline) < t

\* a test for overdue that counts the task due at this very instant
isOverdueOrDue(task, t) ==
    task.status # "Completed" /\ DateOf(task.deadline) # 0 /\ DateOf(task.deadline) <= t

\* t.status !== 'Completed' && new Date(t.deadline) < now
isOverdue(task, t) == task.status # "Completed" /\ Before(task.deadline, t)

\* TaskManager.getStatistics
getStatistics(arr, t) ==
    LET total == Len(arr)
        completed == Len(SelectSeq(arr, LAMBDA x : x.status = "Completed"))
        pending == total - completed
        highPriority == Len(SelectSeq(arr, LAMBDA x : x.priority = "High"))
        overdue == Len(SelectSeq(arr, LAMBDA x : isOverdue(x, t)))
    IN [total |-> total, completed |-> completed, pending |-> pending,
        highPriority |-> highPriority, overdue |-> overdue]

\* a call that computes a value from this.tasks and the clock
Compute(o, r) ==
    /\ op' = o
    /\ outcome' = "ok"
    /\ ret' = r
    /\ events' = <<>>
    /\ UNCHANGED <<tasks, observers, uiAliased, uiOwn, blob, now, storageFull,
                   instance, handles, editingTaskId>>

getStatisticsCall == Compute("statistics", [kind |-> "stats", val |-> getStatistics(tasks, now)])

\* FilterCompleted.filter
FilterCompleted(arr) == SelectSeq(arr, LAMBDA x : x.status = "Completed")

\* a filter that takes ToDo for the only status that is not Completed
FilterToDo(arr) == SelectSeq(arr, LAMBDA x : x.status = "ToDo")

\* FilterNotCompleted.filter
FilterNotCompleted(arr) == SelectSeq(arr, LAMBDA x : x.status # "Completed")

\* FilterHighPriority.filter
FilterHighPriority(arr) == SelectSeq(arr, LAMBDA x : x.priority = "High")

\* FilterOverdue.filter
FilterOverdue(arr, t) == SelectSeq(arr, LAMBDA x : isOverdue(x, t))

FilterKeys == {"all", "completed", "notCompleted", "highPriority", "overdue", "none"}

\* StrategyFactory.getFilterStrategy(type) applied by TaskFilter.filter;
\* FilterAll (also the default case) returns the array it is given
getFilterStrategy(type, arr, t) ==
    IF type = "completed" THEN FilterCompleted(arr)
    ELSE IF type = "notCompleted" THEN FilterNotCompleted(arr)
    ELSE IF type = "highPriority" THEN FilterHighPriority(arr)
    ELSE IF type = "overdue" THEN FilterOverdue(arr, t)
    ELSE arr

\* a client filters the tasks: the result of each strategy on the same input
filterCall ==
    Compute("filter",
            [kind |-> "filtered",
             val |-> [k \in FilterKeys |-> getFilterStrategy(k, tasks, now)]])

\* dateB - dateA: the latest deadline first
compareDeadlineDescending(a, b) == DateOf(b.deadline) - DateOf(a.deadline)

\* the comparefn of SortByDeadline: dateA - dateB
compareDeadline(a, b) == DateOf(a.deadline) - DateOf(b.deadline)

\* const priorityOrder = { 'High': 1, 'Medium': 2, 'Low': 3 }
priorityOrder(p) == IF p = "High" THEN 1 ELSE IF p = "Medium" THEN 2 ELSE 3

\* the priorities compared as strings: High, Low, Medium
comparePriorityAsText(a, b) ==
    LET abc(p) == IF p = "High" THEN 1 ELSE IF p = "Low" THEN 2 ELSE 3
    IN abc(a.priority) - abc(b.priority)

\* the comparefn of SortByPriority
comparePriority(a, b) == priorityOrder(a.priority) - priorityOrder(b.priority)

\* the comparefn of SortByCreationDate: dateB - dateA
compareCreated(a, b) == DateOf(b.createdAt) - DateOf(a.createdAt)

\* the comparefn that the strategy of this type hands to sort
compare(type, a, b) ==
    IF type = "priority" THEN comparePriority(a, b)
    ELSE IF type = "created" THEN compareCreated(a, b)
    ELSE compareDeadline(a, b)

\* Array.prototype.sort(comparefn) on an array of these values: the sort is
\* stable, so the element at place i comes after those that compare below it
\* and after those that compare equal to it and stand before it
ArraySort(arr, type) ==
    LET comparefn(a, b) == compare(type, a, b)
        rank(i) == 1 + Cardinality({j \in 1..Len(arr) :
                        \/ comparefn(arr[j], arr[i]) < 0
                        \/ comparefn(arr[j], arr[i]) = 0 /\ j < i})
    IN [k \in 1..Len(arr) |-> arr[CHOOSE i \in 1..Len(arr) : rank(i) = k]]

\* tasks.sort(...): the array given is itself put in order and returned
SortByDeadlineInPlace(arr) ==
    [input |-> ArraySort(arr, "deadline"), result |-> ArraySort(arr, "deadline")]

\* SortByDeadline.sort: [...tasks].sort(...) orders a copy; input is the array
\* given as it is after the call, result the array returned
SortByDeadline(arr) == [input |-> arr, result |-> ArraySort(arr, "deadline")]

\* SortByPriority.sort
SortByPriority(arr) == [input |-> arr, result |-> ArraySort(arr, "priority")]

\* SortByCreationDate.sort
SortByCreationDate(arr) == [input |-> arr, result |-> ArraySort(arr, "created")]

SortKeys == {"deadline", "priority", "created", "none"}

\* a factory whose default case is the sort by creation date
getSortStrategyDefaultCreated(type, arr) ==
    IF type = "priority" THEN SortByPriority(arr)
    ELSE IF type = "deadline" THEN SortByDeadline(arr)
    ELSE SortByCreationDate(arr)

\* StrategyFactory.getSortStrategy(type) applied by TaskSorter.sort;
\* SortByDeadline is the default case too
getSortStrategy(type, arr) ==
    IF type = "priority" THEN SortByPriority(arr)
    ELSE IF type = "created" THEN SortByCreationDate(arr)
    ELSE SortByDeadline(arr)

\* a client sorts this.tasks with the strategy of the key
sortCall(type) ==
    LET r == getSortStrategy(type, tasks)
    IN /\ tasks' = r.input
       /\ op' = "sort"
       /\ outcome' = "ok"
       /\ ret' = [kind |-> "sorted", key |-> type, val |-> r.result]
       /\ events' = <<>>
       /\ UNCHANGED <<observers, uiAliased, uiOwn, blob, now, storageFull, instance, handles, editingTaskId>>

\* UIManager.renderTasks with the filter and sort keys of the two selects:
\* currentTasks is filtered, the outcome sorted and shown; FilterAll hands back
\* currentTasks itself, which is this.tasks when the observer was handed it
renderTasks(filterType, sortType) ==
    LET currentTasks == IF uiAliased THEN tasks ELSE uiOwn
        itself == filterType \notin {"completed", "notCompleted", "highPriority", "overdue"}
        r == getSortStrategy(sortType, getFilterStrategy(filterType, currentTasks, now))
    IN /\ tasks' = IF uiAliased /\ itself THEN r.input ELSE tasks
       /\ uiOwn' = IF ~uiAliased /\ itself THEN r.input ELSE uiOwn
       /\ op' = "render"
       /\ outcome' = "ok"
       /\ ret' = [kind |-> "rendered", val |-> r.result]
       /\ events' = <<>>
       /\ UNCHANGED <<observers, uiAliased, blob, now, storageFull, instance, handles, editingTaskId>>

\* the values of the fields that the statistics and the strategies read
Statuses == {"ToDo", "Completed", "InProgress"}

Priorities == {"High", "Medium", "Low"}

Deadlines == {"T1", "T2"}

Kinds == [status : Statuses, priority : Priorities, deadline : Deadlines]

\* the i-th task of an input, created at clock value i
KindTask(k, i) ==
    [Task(IdStrings[i], "a", "", k.deadline, k.priority, i) EXCEPT !.status = k.status]

KindTasks(ks) == [i \in 1..Len(ks) |-> KindTask(ks[i], i)]

\* five tasks: three ToDo of which one is overdue, two Completed, two High
StatsExample ==
    KindTasks(<<[status |-> "ToDo", priority |-> "High", deadline |-> "T1"],
                [status |-> "ToDo", priority |-> "Low", deadline |-> "T2"],
                [status |-> "ToDo", priority |-> "Medium", deadline |-> "T2"],
                [status |-> "Completed", priority |-> "High", deadline |-> "T1"],
                [status |-> "Completed", priority |-> "Low", deadline |-> "T2"]>>)

PureInputs ==
    {KindTasks(ks) : ks \in UNION {[1..n -> Kinds] : n \in 0..PureLen}} \cup {StatsExample}

\* the priorities and deadlines in every combination, over both statuses
SortKinds ==
    {[status |-> IF (p = "Medium") = (d = "T1") THEN "Completed" ELSE "ToDo",
      priority |-> p, deadline |-> d] : p \in Priorities, d \in Deadlines}

SortInputs ==
    {KindTasks(ks) : ks \in UNION {[1..n -> SortKinds] : n \in 0..PureLen}}

\* a registry that holds one of these inputs, at the instant T2, with the
\* UIManager notified of them
InitWith(inputs) ==
    /\ tasks \in inputs
    /\ now = 2
    /\ observers = <<"ui">>
    /\ uiAliased = TRUE
    /\ uiOwn = <<>>
    /\ blob = NoData
    /\ storageFull = FALSE
    /\ op = "new"
    /\ outcome = "ok"
    /\ ret = NoRet
    /\ events = <<>>
    /\ editingTaskId = null
    /\ instance = 1
    /\ handles = {1}

InitPure == InitWith(PureInputs)

NextPure ==
    \/ getStatisticsCall
    \/ filterCall

\* the statistics and the filter strategies on every input
SpecPure == InitPure /\ [][NextPure]_vars

InitSort == InitWith(SortInputs)

NextSort ==
    \/ filterCall
    \/ \E s \in SortKeys : sortCall(s)
    \/ \E f \in FilterKeys, s \in SortKeys : renderTasks(f, s)

\* the sort strategies and the rendering on every input
SpecSort == InitSort /\ [][NextSort]_vars

\* a task whose deadline is in the past at T2 and one whose deadline is not
LaterKinds ==
    {[status |-> "ToDo", priority |-> "High", deadline |-> "T1"],
     [status |-> "ToDo", priority |-> "Low", deadline |-> "T2"]}

\* tasks as createTask made them at the instant T1
LaterInputs ==
    {[i \in 1..Len(ks) |-> [KindTask(ks[i], 1) EXCEPT !.id = IdStrings[i]]] :
        ks \in UNION {[1..n -> LaterKinds] : n \in 0..PureLen}}

\* the registry at the instant T2: it holds tasks made at T1, they are stored,
\* and the UIManager has been notified of them
InitLater ==
    /\ tasks \in LaterInputs
    /\ blob = stringify(tasks)
    /\ now = 2
    /\ observers = <<"ui">>
    /\ uiAliased = TRUE
    /\ uiOwn = <<>>
    /\ storageFull = FALSE
    /\ op = "new"
    /\ outcome = "ok"
    /\ ret = NoRet
    /\ events = <<>>
    /\ editingTaskId = null
    /\ instance = 1
    /\ handles = {1}

NextLater ==
    \/ \E id \in IdArgs : markAsCompleted(id) /\ UNCHANGED editingTaskId
    \/ \E id \in IdArgs : markAsNotCompleted(id) /\ UNCHANGED editingTaskId
    \/ filterCall
    \/ loadTasks

\* the registry some time after its tasks were made
SpecLater == InitLater /\ [][NextLater]_vars

\* the class is loaded and nothing has asked for the registry yet
InitSingleton ==
    /\ instance = 0
    /\ handles = {}
    /\ tasks = <<>>
    /\ observers = <<>>
    /\ uiAliased = FALSE
    /\ uiOwn = <<>>
    /\ blob = NoData
    /\ now = 1
    /\ storageFull = FALSE
    /\ op = "new"
    /\ outcome = "ok"
    /\ ret = NoRet
    /\ events = <<>>
    /\ editingTaskId = null

NextSingleton ==
    \/ getInstance
    \/ newTaskManager
    \/ instance # 0 /\ Next

\* the registry with clients that ask for it through getInstance() and through
\* new TaskManager(), in any order
SpecSingleton == InitSingleton /\ [][NextSingleton]_vars

\* ================================================================ claims
Notifications(ev) == SelectSeq(ev, LAMBDA e : e.kind = "notify")

HasId(arr, id) == \E i \in 1..Len(arr) : arr[i].id = id

\* the least place of arr whose task has this id
FirstWithId(arr, id) ==
    CHOOSE i \in 1..Len(arr) : arr[i].id = id /\ \A j \in 1..(i - 1) : arr[j].id # id

RemoveAt(arr, i) == SubSeq(arr, 1, i - 1) \o SubSeq(arr, i + 1, Len(arr))

\* C1: createTask called with an empty or missing title, deadline or priority
\* throws, and this.tasks is what it was: nothing is appended, nothing is
\* written to storage and no observer is notified.
C1_CreateRejectsMissingFields ==
    [][\A t \in TitleArgs, d \in DeadlineArgs, p \in PriorityArgs :
          (op' = "create" /\ (Falsy(t) \/ Falsy(d) \/ Falsy(p)) /\ createTask(t, "", d, p))
              => /\ outcome' = "throw"
                 /\ tasks' = tasks
                 /\ blob' = blob
                 /\ events' = <<>>
                 /\ uiAliased' = uiAliased
                 /\ uiOwn' = uiOwn]_vars

C1_Witness ==
    /\ op = "create" /\ outcome = "throw" /\ events = <<>>
    /\ tasks # <<>> /\ observers # <<>>

\* C2: a createTask that returns appends exactly one task at the end of
\* this.tasks (the earlier tasks keep place and contents), the new task has the
\* fields given, status ToDo and a non-empty id, the task returned is the
\* appended one, and each registered observer is notified exactly once, in
\* order, with the tasks including the new one.
C2_CreateAppendsOne ==
    [][\A t \in TitleArgs, d \in DeadlineArgs, p \in PriorityArgs :
          (op' = "create" /\ outcome' = "ok" /\ createTask(t, "", d, p))
              => /\ Len(tasks') = Len(tasks) + 1
                 /\ SubSeq(tasks', 1, Len(tasks)) = tasks
                 /\ LET new == tasks'[Len(tasks')]
                    IN /\ new.status = "ToDo"
                       /\ ~Falsy(new.id)
                       /\ new.title = t /\ new.deadline = d /\ new.priority = p
                       /\ new.createdAt = toISOString(now)
                 /\ ret' = [kind |-> "task", at |-> Len(tasks')]
                 /\ LET n == Notifications(events')
                    IN /\ Len(n) = Len(observers)
                       /\ \A i \in 1..Len(n) :
                            /\ n[i].obs = observers[i]
                            /\ n[i].snap = tasks']_vars

C2_Witness ==
    /\ op = "create" /\ outcome = "ok"
    /\ Len(tasks) = MaxTasks /\ Len(Notifications(events)) = MaxObservers

\* C3: updateTask with an id that no task has throws (it does not return null),
\* leaves every task and the stored blob unchanged and notifies no observer.
C3_UpdateUnknownIdThrows ==
    [][\A id \in IdArgs, u \in UpdateArgs :
          (op' = "update" /\ ~HasId(tasks, id) /\ updateTask(id, u))
              => /\ outcome' = "throw"
                 /\ tasks' = tasks
                 /\ blob' = blob
                 /\ events' = <<>>]_vars

C3_Witness ==
    /\ op = "update" /\ outcome = "throw" /\ events = <<>>
    /\ tasks # <<>> /\ observers # <<>>

\* C4: no updateTask call, whatever its partial fields (an id or a createdAt
\* key included), changes the id or the createdAt of a task.
C4_IdentityNeverOverwritten ==
    [][op' \in {"update", "complete", "uncomplete"}
          => /\ Len(tasks') = Len(tasks)
             /\ \A i \in 1..Len(tasks) :
                  /\ tasks'[i].id = tasks[i].id
                  /\ tasks'[i].createdAt = tasks[i].createdAt]_vars

\* C5: an updateTask that returns changes, on the first task with that id, the
\* fields its partial fields name and no other (status stays unless named);
\* every other task and the order of this.tasks are unchanged.
C5_UpdateChangesOnlyNamedFields ==
    [][\A id \in IdArgs, u \in UpdateArgs :
          (op' = "update" /\ outcome' = "ok" /\ updateTask(id, u))
              => /\ HasId(tasks, id)
                 /\ Len(tasks') = Len(tasks)
                 /\ \A j \in 1..Len(tasks) :
                      IF j = FirstWithId(tasks, id)
                      THEN /\ \A f \in DOMAIN u : tasks'[j][f] = u[f]
                           /\ \A f \in Fields \ DOMAIN u : tasks'[j][f] = tasks[j][f]
                           /\ DOMAIN tasks'[j] = Fields
                      ELSE tasks'[j] = tasks[j]]_vars

C5_Witness ==
    /\ op = "update" /\ outcome = "ok" /\ Len(tasks) = MaxTasks
    /\ \E i \in 1..Len(tasks) : tasks[i].title = FormEdit.title /\ tasks[i].status = "Completed"

MutatingOps == {"create", "update", "delete", "complete", "uncomplete"}

C9_MutateSaveNotifyOrder ==
    (op \in MutatingOps /\ outcome = "ok")
        => /\ Len(events) = 2 + Len(observers)
           /\ events[1].kind = "mutate"
           /\ events[2].kind = "save"
           /\ events[1].snap = tasks
           /\ events[2].snap = tasks
           /\ \A i \in 3..Len(events) :
                /\ events[i].kind = "notify"
                /\ events[i].snap = events[2].snap

C9_Witness ==
    /\ op \in {"complete", "delete"} /\ outcome = "ok"
    /\ Len(Notifications(events)) = MaxObservers

\* C7: nothing a caller does to what getAllTasks returned (removing or
\* reordering its elements, writing a field of a task in it) changes
\* this.tasks or the tasks it holds.
C7_GetAllIsDefensiveCopy ==
    [][op' = "callerMutates" => tasks' = tasks]_vars

\* C8: what an observer is handed is a snapshot: an observer that mutates the
\* array it stored does not change this.tasks, and the array it stored keeps
\* its contents when the registry is mutated afterwards (a mutating call works
\* on this.tasks in place, so the array stored is then this.tasks after the call).
C8_ObserverGetsSnapshot ==
    [][/\ op' = "observerMutates" => tasks' = tasks
       /\ (op' \in MutatingOps /\ outcome' = "ok" /\ uiAliased) => tasks' = tasks]_vars

\* loadTasks fails: storage cannot be read, the blob is no array of records,
\* or a record of it cannot be made a Task
LoadFails(b, rd) ==
    \/ ~rd
    \/ b.kind \in {"garbage", "null", "object"}
    \/ \E i \in 1..Len(b.recs) : b.recs[i].isNull

\* C10: when loadTasks fails, this.tasks becomes empty, nothing is thrown to
\* the caller and every registered observer is still notified, with the empty
\* sequence.
C10_FailedLoadStillNotifies ==
    [][\A rd \in BOOLEAN :
          (op' = "load" /\ LoadFails(blob, rd) /\ loadTasksWith(rd))
              => /\ tasks' = <<>>
                 /\ outcome' = "ok"
                 /\ Len(Notifications(events')) = Len(observers)
                 /\ \A i \in 1..Len(events') : events'[i].snap = <<>>]_vars

\* C11: TaskManager.saveTasks never throws, and the boolean it returns is the
\* outcome of the write: true when the adapter stored the blob, false when the
\* adapter's write failed.
C11_SaveReportsOutcome ==
    [][op' = "save"
          => /\ outcome' = "ok"
             /\ ret'.val = events'[1].ok
             /\ ret'.val = ~storageFull]_vars

\* C12: while every write to storage fails, create, update, delete, complete
\* and uncomplete with valid arguments return without throwing, this.tasks
\* holds their change, and every observer is notified with it; the stored blob
\* stays what it was.
C12_OutageDoesNotBlockCrud ==
    [][/\ \A t \in TitleArgs, d \in DeadlineArgs, p \in PriorityArgs :
            (op' = "create" /\ storageFull /\ ~(Falsy(t) \/ Falsy(d) \/ Falsy(p))
                /\ createTask(t, "", d, p))
                => /\ outcome' = "ok"
                   /\ Len(tasks') = Len(tasks) + 1
                   /\ tasks'[Len(tasks')].title = t
       /\ \A id \in IdArgs, u \in UpdateArgs :
            (op' = "update" /\ storageFull /\ HasId(tasks, id) /\ updateTask(id, u))
                => /\ outcome' = "ok"
                   /\ \A f \in DOMAIN u : tasks'[FirstWithId(tasks, id)][f] = u[f]
       /\ \A id \in IdArgs :
            (op' = "delete" /\ storageFull /\ HasId(tasks, id) /\ deleteTask(id))
                => /\ outcome' = "ok"
                   /\ tasks' = RemoveAt(tasks, FirstWithId(tasks, id))
       /\ \A id \in IdArgs :
            (op' = "complete" /\ storageFull /\ HasId(tasks, id) /\ markAsCompleted(id))
                => /\ outcome' = "ok"
                   /\ tasks'[FirstWithId(tasks, id)].status = "Completed"
       /\ \A id \in IdArgs :
            (op' = "uncomplete" /\ storageFull /\ HasId(tasks, id) /\ markAsNotCompleted(id))
                => /\ outcome' = "ok"
                   /\ tasks'[FirstWithId(tasks, id)].status = "ToDo"
       /\ (op' \in MutatingOps /\ outcome' = "ok" /\ storageFull)
            => /\ blob' = blob
               /\ Len(Notifications(events')) = Len(observers)
               /\ \A i \in 1..Len(events') : events'[i].snap = tasks'
               /\ \E i \in 1..Len(events') : events'[i].kind = "save" /\ ~events'[i].ok]_vars

C12_Witness ==
    /\ storageFull /\ op = "delete" /\ outcome = "ok"
    /\ Len(tasks) = MaxTasks - 1 /\ blob # stringify(tasks)
    /\ Len(Notifications(events)) = MaxObservers

\* the observers that events shows were called, in the order of the calls
Notified(ev) == [i \in 1..Len(Notifications(ev)) |-> Notifications(ev)[i].obs]

\* C13: after every mutating call that returns and after every loadTasks, the
\* update hook of each registered observer has been called, in the order of
\* registration, each time with the whole of this.tasks as it now is; and once
\* removeObserver(o) has returned, o is no longer among those notified.
C13_NotifyAllInRegistrationOrder ==
    [][/\ ((op' \in MutatingOps /\ outcome' = "ok") \/ op' = "load")
            => /\ Notified(events') = observers
               /\ \A i \in 1..Len(events') :
                    events'[i].kind = "notify" => events'[i].snap = tasks'
       /\ \A o \in ObserverIds :
            (op' = "removeObserver" /\ removeObserver(o))
                => \A i \in 1..Len(observers') : observers'[i] # o]_vars

\* C14: an observer whose update hook throws does not keep the observers
\* registered after it from being called: whenever a mutating call has changed
\* this.tasks, every registered observer whose own hook does not throw has been
\* handed the changed tasks, and this.tasks is what the mutation made it.
C14_ThrowingObserverIsIsolated ==
    [][(op' \in MutatingOps /\ events' # <<>>)
          => /\ tasks' = events'[1].snap
             /\ \A i \in 1..Len(observers) :
                  observers[i] # "bad"
                      => \E j \in 1..Len(events') :
                            /\ events'[j].kind = "notify"
                            /\ events'[j].obs = observers[i]
                            /\ events'[j].snap = tasks']_vars

\* C15: every getInstance() and every new TaskManager(), in whatever order,
\* yields the one object TaskManager.instance, so no two objects are ever handed
\* out; and once the instance exists, neither call changes its tasks or its
\* observers, nor which object the instance is.
C15_OneInstance ==
    [][op' \in {"getInstance", "construct"}
          => /\ instance' # 0
             /\ ret'.ref = instance'
             /\ handles' = {instance'}
             /\ instance # 0
                  => /\ instance' = instance
                     /\ tasks' = tasks
                     /\ observers' = observers]_vars

C15_Witness ==
    /\ op = "construct" /\ ret = [kind |-> "object", ref |-> instance]
    /\ Len(tasks) = MaxTasks /\ observers # <<>>

\* the places of the tasks of arr whose field f has one of the values vs
Places(arr, f, vs) == {i \in 1..Len(arr) : arr[i][f] \in vs}

\* C16: getStatistics returns total = the number of tasks, completed = those
\* with status Completed, pending = those not Completed, highPriority = those
\* with priority High, overdue = those not Completed whose deadline is strictly
\* before now; so total = completed + pending and overdue <= pending, and the
\* five tasks of the example give {5, 2, 3, 2, 1}.
C16_StatisticsCounts ==
    op = "statistics"
        => /\ ret.val.total = Len(tasks)
           /\ ret.val.completed = Cardinality(Places(tasks, "status", {"Completed"}))
           /\ ret.val.pending =
                 Cardinality((1..Len(tasks)) \ Places(tasks, "status", {"Completed"}))
           /\ ret.val.highPriority = Cardinality(Places(tasks, "priority", {"High"}))
           /\ ret.val.overdue =
                 Cardinality(Places(tasks, "deadline", {TimeStrings[n] : n \in 1..(now - 1)})
                                \ Places(tasks, "status", {"Completed"}))
           /\ ret.val.total = ret.val.completed + ret.val.pending
           /\ ret.val.overdue <= ret.val.pending
           /\ tasks = StatsExample
                => ret.val = [total |-> 5, completed |-> 2, pending |-> 3,
                              highPriority |-> 2, overdue |-> 1]

C16_Witness ==
    /\ op = "statistics" /\ tasks = StatsExample /\ ret.val.overdue = 1

\* C17: on every input, whatever the status values in it, the results of the
\* completed filter and of the notCompleted filter have no task in common and
\* every task of the input is in one of them, at its place in the input's order.
C17_CompletedFiltersPartition ==
    op = "filter"
        => LET c == ret.val["completed"]
               n == ret.val["notCompleted"]
               ids(a) == {a[i].id : i \in 1..Len(a)}
           IN /\ ids(c) \cap ids(n) = {}
              /\ ids(c) \cup ids(n) = ids(tasks)
              /\ Len(c) + Len(n) = Len(tasks)
              /\ \A i \in 1..Len(tasks) :
                    \/ \E j \in 1..Len(c) : c[j] = tasks[i]
                    \/ \E j \in 1..Len(n) : n[j] = tasks[i]

C17_Witness ==
    /\ op = "filter" /\ Len(tasks) = PureLen
    /\ \E i \in 1..Len(tasks) : tasks[i].status = "InProgress"
    /\ ret.val["completed"] # <<>> /\ Len(ret.val["notCompleted"]) > 1

\* the tasks of a are those of b, each as often
Permutation(a, b) ==
    /\ Len(a) = Len(b)
    /\ \A x \in {a[i] : i \in 1..Len(a)} \cup {b[i] : i \in 1..Len(b)} :
          Cardinality({i \in 1..Len(a) : a[i] = x}) = Cardinality({i \in 1..Len(b) : b[i] = x})

\* the place of the task with this id in a
PlaceOf(a, id) == CHOOSE i \in 1..Len(a) : a[i].id = id

\* tasks with the same value of field f keep in a the relative order they
\* have in b
KeepsOrder(a, b, f) ==
    \A i, j \in 1..Len(b) :
        (i < j /\ b[i][f] = b[j][f]) => PlaceOf(a, b[i].id) < PlaceOf(a, b[j].id)

\* the instant of a deadline: the place of the date string on the time line
Instant(deadline) == CHOOSE n \in 1..Len(TimeStrings) : TimeStrings[n] = deadline

\* C18: sorting by deadline returns a permutation of the input in ascending
\* order of deadline, in which two tasks of the same deadline stand in the
\* order they have in the input.
C18_DeadlineSortAscendingStable ==
    (op = "sort" /\ ret.key \in {"deadline", "none"})
        => /\ Permutation(ret.val, tasks)
           /\ \A i, j \in 1..Len(ret.val) :
                i < j => Instant(ret.val[i].deadline) <= Instant(ret.val[j].deadline)
           /\ KeepsOrder(ret.val, tasks, "deadline")

C18_Witness ==
    /\ op = "sort" /\ ret.key = "deadline" /\ ret.val # tasks
    /\ \E i, j \in 1..Len(tasks) : i < j /\ tasks[i].deadline = tasks[j].deadline

\* C19: sorting by priority returns a permutation of the input in which every
\* High task stands before every Medium task and every Medium task before every
\* Low task, whatever the order of the input, and tasks of the same priority
\* stand in the order they have in the input.
C19_PrioritySortHighMediumLow ==
    (op = "sort" /\ ret.key = "priority")
        => /\ Permutation(ret.val, tasks)
           /\ \A i, j \in 1..Len(ret.val) :
                (\/ ret.val[i].priority = "High" /\ ret.val[j].priority \in {"Medium", "Low"}
                 \/ ret.val[i].priority = "Medium" /\ ret.val[j].priority = "Low")
                    => i < j
           /\ KeepsOrder(ret.val, tasks, "priority")

C19_Witness ==
    /\ op = "sort" /\ ret.key = "priority" /\ ret.val # tasks
    /\ {tasks[i].priority : i \in 1..Len(tasks)} = Priorities

\* C20: no sort strategy changes the array it is given, and no rendering,
\* whatever the filter key and the sort key (the all filter hands the sort the
\* observer's array itself, which is this.tasks), changes this.tasks: same
\* tasks, same order.
C20_SortDoesNotMutateInput ==
    [][op' \in {"sort", "render"} => tasks' = tasks /\ uiOwn' = uiOwn]_vars

C20_Witness ==
    /\ op = "render" /\ uiAliased /\ Len(tasks) = PureLen
    /\ ret.val # tasks /\ Len(ret.val) = Len(tasks)

\* C21: choosing a strategy never fails: a key that is none of the filter keys
\* gives the all filter, whose result is the input itself, and a key that is
\* none of the sort keys gives the sort by deadline, whose result is the input
\* in ascending order of deadline, equal deadlines in input order.
C21_UnknownKeyFallsBack ==
    /\ op \in {"filter", "sort"} => outcome = "ok"
    /\ op = "filter" => ret.val["none"] = tasks /\ ret.val["all"] = tasks
    /\ (op = "sort" /\ ret.key \notin {"deadline", "priority", "created"})
          => /\ Len(ret.val) = Len(tasks)
             /\ \A i \in 1..Len(tasks) :
                  \A j \in 1..Len(tasks) :
                      (\/ Instant(tasks[i].deadline) < Instant(tasks[j].deadline)
                       \/ tasks[i].deadline = tasks[j].deadline /\ i < j)
                          => PlaceOf(ret.val, tasks[i].id) < PlaceOf(ret.val, tasks[j].id)

C21_Witness ==
    /\ op = "sort" /\ ret.key = "none" /\ ret.val # tasks /\ Len(tasks) = PureLen

\* the overdue filter's result on arr holds the task with this id
InOverdue(arr, t, id) ==
    \E i \in 1..Len(FilterOverdue(arr, t)) : FilterOverdue(arr, t)[i].id = id

\* C22: the overdue filter's result holds every task of the registry whose
\* deadline is in the past and whose status is ToDo; once markAsCompleted(id)
\* has returned, the filter on the registry's tasks no longer holds that task,
\* and once a markAsNotCompleted(id) has returned it holds it again.
C22_OverdueFollowsCompletion ==
    [][/\ op' = "filter"
            => \A i \in 1..Len(tasks) :
                 (\E j \in 1..Len(ret'.val["overdue"]) : ret'.val["overdue"][j] = tasks[i])
                     <=> (tasks[i].status # "Completed" /\ Instant(tasks[i].deadline) < now)
       /\ \A id \in IdArgs :
            (op' = "complete" /\ HasId(tasks, id) /\ markAsCompleted(id))
                => /\ outcome' = "ok"
                   /\ ~InOverdue(tasks', now, id)
       /\ \A id \in IdArgs :
            (op' = "uncomplete" /\ HasId(tasks, id) /\ markAsNotCompleted(id)
                /\ Instant(tasks[FirstWithId(tasks, id)].deadline) < now)
                => /\ outcome' = "ok"
                   /\ tasks'[FirstWithId(tasks, id)].status = "ToDo"
                   /\ InOverdue(tasks', now, id)]_vars

C22_Witness ==
    /\ op = "uncomplete" /\ outcome = "ok" /\ Len(tasks) = PureLen
    /\ \E i \in 1..Len(tasks) :
          /\ tasks[i].status = "ToDo" /\ InOverdue(tasks, now, tasks[i].id)
          /\ blob.recs[i].obj.status = "ToDo"
    /\ \E i \in 1..Len(tasks) :
          tasks[i].status = "Completed" /\ tasks[i].deadline = "T1"

\* C23: a task that createTask made (completed since or not), written to
\* storage and read back, is made by fromObject into a task with the same id,
\* createdAt, status, title, description, deadline and priority.
C23_RoundTrip ==
    [][(op' = "load" /\ blob = stringify(tasks) /\ loadTasksWith(TRUE))
          => /\ Len(tasks') = Len(tasks)
             /\ \A i \in 1..Len(tasks) :
                  \A f \in Fields : tasks'[i][f] = tasks[i][f]]_vars

C23_Witness ==
    /\ op = "load" /\ ret = [kind |-> "array", live |-> TRUE] /\ Len(tasks) = PureLen
    /\ \E i \in 1..Len(tasks) : tasks[i].status = "Completed" /\ tasks[i].createdAt # toISOString(now)
    /\ blob = stringify(tasks)

\* C24: fromObject fails on a record in which title, deadline or priority is
\* missing or empty, so no loadTasks puts into this.tasks a task without a
\* title, a deadline or a priority.
C24_LoadRejectsIncompleteRecords ==
    [][op' = "load"
          => \A i \in 1..Len(tasks') :
               /\ ~Falsy(tasks'[i].title)
               /\ ~Falsy(tasks'[i].deadline)
               /\ ~Falsy(tasks'[i].priority)]_vars

\* C25: loadTasks with nothing stored, or with a stored text that cannot be
\* parsed, returns without an error and leaves this.tasks empty; in both cases
\* StorageManager.loadTasks hands back an empty array and throws nothing.
C25_LoadOfNothingIsEmpty ==
    [][(op' = "load" /\ blob.kind \in {"none", "garbage"} /\ loadTasksWith(TRUE))
          => /\ StorageManager_loadTasks(blob, TRUE) = EmptyArray
             /\ tasks' = <<>>
             /\ outcome' = "ok"
             /\ ret' = [kind |-> "array", live |-> TRUE]
             /\ blob' = blob]_vars

C25_Witness ==
    /\ op = "load" /\ outcome = "ok" /\ blob.kind = "garbage" /\ tasks = <<>>
    /\ uiAliased /\ Len(Notifications(events)) = MaxObservers

\* C26: in every reachable state every task of this.tasks has a non-empty
\* title: createTask rejects an empty title and updateTask rejects partial
\* fields that would make the title empty.
C26_TitleNeverEmpty ==
    \A i \in 1..Len(tasks) : ~Falsy(tasks[i].title)

\* C27: in every reachable state no two tasks of this.tasks have the same id.
C27_IdsUnique ==
    \A i, j \in 1..Len(tasks) : tasks[i].id = tasks[j].id => i = j

\* C28: with writes to storage succeeding, after every create, update, delete,
\* complete or uncomplete that returned, the stored blob is an array with one
\* record per task of this.tasks, in the same order and with the same field
\* values, and the tasks that a loadTasks would build from it at that point are
\* the tasks of this.tasks: none missing, none added, none changed.
C28_BlobMirrorsRegistry ==
    (op \in MutatingOps /\ outcome = "ok" /\ ~storageFull)
        => /\ blob.kind = "array"
           /\ Len(blob.recs) = Len(tasks)
           /\ \A i \in 1..Len(tasks) :
                /\ ~blob.recs[i].isNull
                /\ \A f \in Fields : Prop(blob.recs[i].obj, f) = tasks[i][f]
           /\ LET saved == StorageManager_loadTasks(blob, TRUE)
              IN /\ ~mapThrows(saved)
                 /\ [i \in 1..Len(saved.recs) |-> fromObject(saved.recs[i].obj, now)] = tasks

C28_Witness ==
    /\ op = "delete" /\ outcome = "ok" /\ Len(tasks) = MaxTasks - 1
    /\ \E i \in 1..Len(tasks) : tasks[i].status = "Completed" /\ tasks[i].title = FormEdit.title
    /\ blob = stringify(tasks)

\* C29: whenever createTask, updateTask or deleteTask ends by throwing, this.tasks
\* and the stored blob are what they were before the call, also when the error
\* is thrown by the update hook of an observer during the notification.
C29_ThrowLeavesStateUnchanged ==
    [][(op' \in {"create", "update", "delete"} /\ outcome' = "throw")
          => tasks' = tasks /\ blob' = blob]_vars

\* C30: in the application controller, after any sequence of edit, form submit,
\* delete, complete and uncomplete, editingTaskId is null or the id of a task of
\* the registry; a submit that passes the form's validation while editingTaskId
\* is set writes the form's fields to that task, adds no task and leaves the
\* other tasks as they were, and when it succeeded editingTaskId is null, so
\* that a submit made with editingTaskId null adds one task.
C30_EditingTaskIdNamesATask ==
    /\ [](editingTaskId = null \/ HasId(tasks, editingTaskId))
    /\ [][\A form \in FormArgs :
            (/\ handleFormSubmit(form)
             /\ ~(Falsy(form.title) \/ Falsy(form.deadline) \/ Falsy(form.priority)))
            => IF editingTaskId # null
               THEN /\ Len(tasks') = Len(tasks)
                    /\ \A i \in 1..Len(tasks) :
                         IF tasks[i].id = editingTaskId
                         THEN /\ \A f \in DOMAIN form : tasks'[i][f] = form[f]
                              /\ \A f \in Fields \ DOMAIN form : tasks'[i][f] = tasks[i][f]
                         ELSE tasks'[i] = tasks[i]
                    /\ outcome' = "ok"
                    /\ editingTaskId' = null
               ELSE /\ Len(tasks') = Len(tasks) + 1
                    /\ SubSeq(tasks', 1, Len(tasks)) = tasks
                    /\ editingTaskId' = null]_vars

C30_Witness ==
    /\ op = "update" /\ outcome = "ok" /\ editingTaskId = null
    /\ Len(tasks) = MaxTasks
    /\ \E i \in 1..Len(tasks) :
         /\ tasks[i].status = "Completed"
         /\ \A f \in DOMAIN FormEdit : tasks[i][f] = FormEdit[f]
    /\ \E i \in 1..Len(tasks) : tasks[i].title # FormEdit.title

====
